---- MODULE Spec2Model ----
(***************************************************************************)
(* Trusted chain-tip synchronizer of zebra-rpc (src/zebra-rpc/src/sync.rs). *)
(*                                                                         *)
(* Two entry points are modelled side by side:                             *)
(*   - sync_from_rpc: the two-phase loop (wait_for_new_blocks, catch-up)   *)
(*     that owns a NonFinalizedState and a watch sender for its snapshots; *)
(*   - TrustedChainSync: the task built by spawn/new, its polling loop and *)
(*     update_channels, with the LatestChainTip handle that spawn returns. *)
(* They share the read-only finalized database.                            *)
(*                                                                         *)
(* Values.  A block is identified by its hash, a positive number; its      *)
(* header's previous_block_hash and its height are functions of the hash.  *)
(* Option<T> is a sequence: <<>> is None, <<x>> or <<h, x>> is Some.       *)
(* Option<Hash> of a tip block is a hash, NoHash when absent.              *)
(***************************************************************************)
EXTENDS Integers, Sequences, FiniteSets, TLC

\* Reorg limit of zebra_state (99 there; scaled down so that the drain loop runs).
MAX_BLOCK_REORG_HEIGHT == 2

\* Highest block the finalized database reaches in a run.
MaxFinalized == 2

\* Number of blocks of the main line: enough for finalize() to run twice
\* above the first finalized block.
MainLen == MAX_BLOCK_REORG_HEIGHT + 3

\* block::Hash([0; 32]): the previous_block_hash of the genesis block.
NoHash == 0

\* Blocks 1..MainLen form the main line; block MainLen + i is a competing
\* sibling of block i (same parent, same height, no children).
Blocks == 1..(2 * MainLen)

PreviousBlockHash(b) == IF b <= MainLen THEN b - 1 ELSE b - MainLen - 1

BlockHeight(b) == IF b <= MainLen THEN b - 1 ELSE b - MainLen - 1

None == <<>>

Some(x) == <<x>>

VARIABLES
    pc,                          \* sync_from_rpc: "wait", "polling" (getbestblockhash
                                 \* in flight), "reading_tip" (finalized_state.tip()
                                 \* handed to a blocking thread), "tip_read" (the
                                 \* thread is done, the task not yet resumed),
                                 \* "fetch", "fetching" (getblock in flight),
                                 \* "reading_hash" and "hash_read" (the same for
                                 \* finalized_tip_hash()), "error" (returned an
                                 \* error)
    non_finalized_state,         \* sync_from_rpc's local store
    current_tip_height,          \* SyncPosition, bound while pc = "fetch"
    current_tip_hash,
    node_tip_hash,
    non_finalized_state_sender,  \* value held by the watch channel
    receivers,                   \* TRUE while a receiver of the watch channel lives
    db_tip,                      \* finalized database tip: NoHash or a main block
    chain_tip,                   \* value of each ChainTipSender's channel
    syncer_pc,                   \* TrustedChainSync: "idle", "polling", "reading_tip",
                                 \* "tip_read", "send", "set_tip"
    tip_block,                   \* update_channels: the tip being published
    trusted,                     \* NoHash: any response; else the remote's fixed tip
    syncer_state,                \* TrustedChainSync's non_finalized_state field
    syncer_state_sender,         \* value held by TrustedChainSync's watch channel
    initial_tip,                 \* history: the tip installed at construction
    finalized_heights,           \* history: the heights of the blocks finalize()
                                 \* dropped since the store was last new
    node_block_hash,             \* wait_for_new_blocks: the reply held while the
                                 \* read of the finalized tip is pending
    fetched_block,               \* catch-up: the block held while the read of
                                 \* the finalized tip hash is pending
    syncer_node_block_hash,      \* TrustedChainSync::wait_for_new_blocks: the
                                 \* reply held while the read of the tip is pending
    finalized_tip_read,          \* what the blocking thread got from
                                 \* finalized_state.tip(), until the task resumes
    finalized_tip_hash_read,     \* what the blocking thread got from
                                 \* finalized_state.finalized_tip_hash()
    syncer_tip_read,             \* what the blocking thread got from db.tip()
    sent_for,                    \* history: the tip of the update_channels call
                                 \* whose snapshot TrustedChainSync's watch
                                 \* channel holds; NoHash before the first
    last                         \* history: the last step, its request and response

vars == <<pc, non_finalized_state, current_tip_height, current_tip_hash,
          node_tip_hash, non_finalized_state_sender, receivers, db_tip,
          chain_tip, syncer_pc, tip_block, trusted, syncer_state,
          syncer_state_sender, initial_tip, finalized_heights,
          node_block_hash, fetched_block, syncer_node_block_hash,
          finalized_tip_read, finalized_tip_hash_read, syncer_tip_read,
          sent_for, last>>

----------------------------------------------------------------------------
(* Finalized storage (read-only collaborator).                             *)

\* ZebraDb::tip
DbTip(db) == IF db = NoHash THEN None ELSE <<BlockHeight(db), db>>

\* ZebraDb::finalized_tip_hash
FinalizedTipHash(db) == db

\* ZebraDb::tip_block, as the ChainTipBlock built from it
DbTipBlock(db) == db

----------------------------------------------------------------------------
(* Non-Finalized Chain Store.  chains: the candidate chains, each a        *)
(* sequence of blocks from its root to its tip; best: the best chain.      *)

\* NonFinalizedState::new
NewNonFinalizedState == [chains |-> {}, best |-> <<>>]

ChainTip(chain) == chain[Len(chain)]

\* NonFinalizedState::best_tip
BestTip(state) ==
    IF state.best = <<>> THEN None
    ELSE <<BlockHeight(ChainTip(state.best)), ChainTip(state.best)>>

\* NonFinalizedState::best_chain_len (None is 0)
BestChainLen(state) == Len(state.best)

\* Fork choice on insertion of chain: the longer chain wins, a tie keeps the best.
InsertChain(state, old, chain) ==
    [chains |-> (state.chains \ {old}) \cup {chain},
     best   |-> IF state.best = old /\ old # <<>> THEN chain
                ELSE IF Len(chain) > Len(state.best) THEN chain
                ELSE state.best]

\* NonFinalizedState::commit_new_chain; valid: the outcome of the block checks
CommitNewChain(state, block, db, valid) ==
    IF valid /\ PreviousBlockHash(block) = FinalizedTipHash(db)
    THEN [ok |-> TRUE, state |-> InsertChain(state, <<>>, <<block>>)]
    ELSE [ok |-> FALSE, state |-> state]

\* NonFinalizedState::commit_block
CommitBlock(state, block, valid) ==
    LET parents == {c \in state.chains : ChainTip(c) = PreviousBlockHash(block)}
    IN  IF valid /\ parents # {}
        THEN LET parent == IF state.best \in parents THEN state.best
                            ELSE CHOOSE c \in parents : TRUE
             IN  [ok |-> TRUE,
                  state |-> InsertChain(state, parent, Append(parent, block))]
        ELSE [ok |-> FALSE, state |-> state]

\* NonFinalizedState::finalize: drops the oldest block of the best chain; the
\* chains that do not pass through it are no longer rooted at the finalized tip.
Finalize(state) ==
    LET root == Head(state.best)
    IN  [chains |-> {Tail(c) : c \in {d \in state.chains : Head(d) = root}}
                        \ {<<>>},
         best   |-> Tail(state.best)]

----------------------------------------------------------------------------
(* The trusted node.  While trusted = NoHash any response may arrive; once  *)
(* the node has settled on a best chain, the chain ending in block trusted, *)
(* every request is answered from that chain.                              *)

RECURSIVE IsAncestor(_, _)
IsAncestor(a, b) ==
    IF a = b THEN TRUE
    ELSE IF b = NoHash THEN FALSE
    ELSE IsAncestor(a, PreviousBlockHash(b))

\* getbestblockhash: None is a failed or malformed response
BestBlockHashResponses ==
    IF trusted = NoHash THEN {None} \cup {Some(h) : h \in Blocks}
    ELSE {Some(trusted)}

\* getblock at a height: None is a failed request, a missing block or bytes
\* that do not deserialize
GetBlockResponses(height) ==
    IF trusted = NoHash THEN {None} \cup {Some(b) : b \in Blocks}
    ELSE LET at == {b \in Blocks : BlockHeight(b) = height /\ IsAncestor(b, trusted)}
         IN  IF at = {} THEN {None} ELSE {Some(b) : b \in at}

----------------------------------------------------------------------------
(* History of the last step.                                               *)

\* op: the step; height, tip_hash: the height requested and the hash the
\* fetched block is checked against; result: the response; commit, ok: the
\* commit operation called and its outcome; finalized: finalize() calls;
\* sent: send calls on the snapshot channel.
\* tokio::task::spawn_blocking: what the JoinHandle yields once the closure
\* has run on the blocking thread: its value, or a JoinError (joined FALSE)
\* when it panicked; none stands in for the value that does not exist then.
SpawnBlocking(joined, value, none) ==
    [joined |-> joined, value |-> IF joined THEN value ELSE none]

Step(op, height, tip_hash, result, commit, ok, finalized, sent) ==
    [op |-> op, height |-> height, tip_hash |-> tip_hash, result |-> result,
     commit |-> commit, ok |-> ok, finalized |-> finalized, sent |-> sent]

Quiet(op) == Step(op, 0, NoHash, None, "none", FALSE, 0, 0)

----------------------------------------------------------------------------
(* Construction.                                                           *)

\* Variant: TrustedChainSync::new keeps the sender it was given.
SyncerSenderFromSpawn == "spawn"

\* TrustedChainSync::new keeps the ChainTipSender it builds itself ("new"),
\* not the one spawn passed in ("spawn").
SyncerChainTipSender == "new"

\* TrustedChainSync::spawn returns the receivers of the sender it built.
LatestChainTipChannel == "spawn"

\* LatestChainTip::best_tip_hash as a reader sees it
LatestChainTip == chain_tip[LatestChainTipChannel]

Init ==
    /\ pc = "wait"
    /\ non_finalized_state = NewNonFinalizedState
    /\ current_tip_height = 0
    /\ current_tip_hash = NoHash
    /\ node_tip_hash = NoHash
    /\ non_finalized_state_sender = NewNonFinalizedState
    /\ receivers = TRUE
    /\ db_tip \in NoHash..MaxFinalized
    /\ chain_tip = [c \in {"spawn", "new"} |-> DbTipBlock(db_tip)]
    /\ syncer_pc = "idle"
    /\ tip_block = NoHash
    /\ trusted = NoHash
    /\ syncer_state = NewNonFinalizedState
    /\ syncer_state_sender = NewNonFinalizedState
    /\ initial_tip = DbTipBlock(db_tip)
    /\ finalized_heights = {}
    /\ node_block_hash = NoHash
    /\ fetched_block = NoHash
    /\ syncer_node_block_hash = NoHash
    /\ finalized_tip_read = SpawnBlocking(FALSE, None, None)
    /\ finalized_tip_hash_read = SpawnBlocking(FALSE, NoHash, NoHash)
    /\ syncer_tip_read = SpawnBlocking(FALSE, None, None)
    /\ sent_for = NoHash
    /\ last = Quiet("init")

----------------------------------------------------------------------------
(* sync_from_rpc.                                                          *)

\* Variant: the finalized tip is looked up first.
FinalizedTipFirst(state, db) ==
    IF DbTip(db) # None THEN DbTip(db) ELSE BestTip(state)

\* wait_for_new_blocks: the local tip is the store's best tip, else the
\* finalized tip
LocalTip(state, db) ==
    IF BestTip(state) # None THEN BestTip(state) ELSE DbTip(db)

\* tokio::sync::watch::Sender::send: the value is replaced only while a
\* receiver lives; otherwise the call returns an error
Send(channel, alive, value) == IF alive THEN value ELSE channel

\* Variant: the phase ends at every answered poll.
TipsDifferAlways(node_hash, tip_hash) == TRUE

\* `node_block_hash != tip_hash`: the phase ends when the hashes differ
TipsDiffer(node_hash, tip_hash) == node_hash # tip_hash

\* wait_for_new_blocks sends the getbestblockhash request.
CallGetBestBlockHash ==
    /\ pc = "wait"
    /\ pc' = "polling"
    /\ last' = Quiet("call getbestblockhash")
    /\ UNCHANGED <<non_finalized_state, current_tip_height, current_tip_hash,
                   node_tip_hash, non_finalized_state_sender, receivers, db_tip,
                   chain_tip, syncer_pc, tip_block, trusted, syncer_state,
                   syncer_state_sender, initial_tip,
                   finalized_heights, sent_for,
                   node_block_hash, fetched_block, syncer_node_block_hash,
                   finalized_tip_read, finalized_tip_hash_read, syncer_tip_read>>

\* The comparison that ends an iteration of wait_for_new_blocks: with a
\* local tip that differs from the node's the position is returned, else the
\* loop sleeps and polls again.
CompareTips(node_hash, tip) ==
    IF tip # None /\ TipsDiffer(node_hash, tip[2])
    THEN /\ pc' = "fetch"
         /\ current_tip_height' = tip[1]
         /\ current_tip_hash' = tip[2]
         /\ node_tip_hash' = node_hash
    ELSE \* no genesis block yet, or the hashes agree: sleep, poll again
         /\ pc' = "wait"
         /\ UNCHANGED <<current_tip_height, current_tip_hash, node_tip_hash>>

\* The getbestblockhash response arrives.  With a best tip in the store the
\* iteration ends here; with an empty store the finalized tip is read on a
\* blocking thread and the task waits for it.
WaitForNewBlocks(response) ==
    /\ pc = "polling"
    /\ last' = Step("getbestblockhash", 0, NoHash, response, "none", FALSE, 0, 0)
    /\ IF response = None
       THEN \* `.await?`: the error is returned to the caller of sync_from_rpc
            /\ pc' = "error"
            /\ UNCHANGED <<current_tip_height, current_tip_hash, node_tip_hash,
                           node_block_hash>>
       ELSE IF BestTip(non_finalized_state) # None
       THEN /\ CompareTips(response[1], LocalTip(non_finalized_state, db_tip))
            /\ UNCHANGED node_block_hash
       ELSE /\ pc' = "reading_tip"
            /\ node_block_hash' = response[1]
            /\ UNCHANGED <<current_tip_height, current_tip_hash, node_tip_hash>>
    /\ UNCHANGED <<non_finalized_state, non_finalized_state_sender, receivers,
                   db_tip, chain_tip, syncer_pc, tip_block, trusted,
                   syncer_state, syncer_state_sender, initial_tip,
                   finalized_heights, sent_for, fetched_block,
                   syncer_node_block_hash,
                   finalized_tip_read, finalized_tip_hash_read, syncer_tip_read>>

\* The closure `move || finalized_state.tip()` runs on the blocking thread
\* and reads the finalized tip of that moment; joined is FALSE when it panics.
BlockingTip(joined) ==
    /\ pc = "reading_tip"
    /\ pc' = "tip_read"
    /\ finalized_tip_read' = SpawnBlocking(joined, DbTip(db_tip), None)
    /\ last' = Quiet("finalized_state.tip")
    /\ UNCHANGED <<non_finalized_state, current_tip_height, current_tip_hash,
                   node_tip_hash, non_finalized_state_sender, receivers, db_tip,
                   chain_tip, syncer_pc, tip_block, trusted, syncer_state,
                   syncer_state_sender, initial_tip, finalized_heights,
                   sent_for, node_block_hash, fetched_block,
                   syncer_node_block_hash, finalized_tip_hash_read,
                   syncer_tip_read>>

\* `spawn_blocking(..).await?` resumes the task with what the blocking
\* thread read: a JoinError is returned to the caller of sync_from_rpc, a
\* tip is compared with the node's hash.
ReadTip ==
    /\ pc = "tip_read"
    /\ last' = Step("tip", 0, NoHash, Some(node_block_hash), "none",
                    finalized_tip_read.joined, 0, 0)
    /\ node_block_hash' = NoHash
    /\ finalized_tip_read' = SpawnBlocking(FALSE, None, None)
    /\ IF ~finalized_tip_read.joined
       THEN /\ pc' = "error"
            /\ UNCHANGED <<current_tip_height, current_tip_hash, node_tip_hash>>
       ELSE CompareTips(node_block_hash, finalized_tip_read.value)
    /\ UNCHANGED <<non_finalized_state, non_finalized_state_sender, receivers,
                   db_tip, chain_tip, syncer_pc, tip_block, trusted,
                   syncer_state, syncer_state_sender, initial_tip,
                   finalized_heights, sent_for, fetched_block,
                   syncer_node_block_hash, finalized_tip_hash_read,
                   syncer_tip_read>>

\* The height the catch-up phase asks the node for
FetchHeight(tip_height) == tip_height

\* The catch-up loop sends the getblock request.
CallGetBlock ==
    /\ pc = "fetch"
    /\ pc' = "fetching"
    /\ last' = Step("call getblock", FetchHeight(current_tip_height),
                    current_tip_hash, None, "none", FALSE, 0, 0)
    /\ UNCHANGED <<non_finalized_state, current_tip_height, current_tip_hash,
                   node_tip_hash, non_finalized_state_sender, receivers, db_tip,
                   chain_tip, syncer_pc, tip_block, trusted, syncer_state,
                   syncer_state_sender, initial_tip,
                   finalized_heights, sent_for,
                   node_block_hash, fetched_block, syncer_node_block_hash,
                   finalized_tip_read, finalized_tip_hash_read, syncer_tip_read>>

\* Variant: every block is taken to link to the expected hash.
LinksToAny(parent_hash, tip_hash) == TRUE

\* The linkage check, made by the filter and again by the `if` after it:
\* `previous_block_hash == current_tip_hash`
LinksTo(parent_hash, tip_hash) == parent_hash = tip_hash

\* `.filter(|block| block.block.header.previous_block_hash == current_tip_hash)`
FilterBlock(response, tip_hash) ==
    IF response # None /\ LinksTo(PreviousBlockHash(response[1]), tip_hash)
    THEN response ELSE None

\* Variant: `>=` in the place of `>`.
AtLimit(state) == BestChainLen(state) >= MAX_BLOCK_REORG_HEIGHT

\* The condition of the drain loop:
\* `non_finalized_state.best_chain_len() > MAX_BLOCK_REORG_HEIGHT`
OverLimit(state) == BestChainLen(state) > MAX_BLOCK_REORG_HEIGHT

\* Variant: the drain loop starts one block late.
RECURSIVE DrainLate(_)
DrainLate(state) ==
    IF BestChainLen(state) > MAX_BLOCK_REORG_HEIGHT + 1
    THEN DrainLate(Finalize(state)) ELSE state

\* `while best_chain_len() > MAX_BLOCK_REORG_HEIGHT { finalize() }`
RECURSIVE Drain(_)
Drain(state) ==
    IF OverLimit(state) THEN Drain(Finalize(state)) ELSE state

\* The number of finalize() calls of that loop
RECURSIVE DrainCalls(_)
DrainCalls(state) ==
    IF OverLimit(state) THEN 1 + DrainCalls(Finalize(state)) ELSE 0

\* The heights dropped so far, after that loop has run
RECURSIVE DrainHeights(_, _)
DrainHeights(state, heights) ==
    IF OverLimit(state)
    THEN DrainHeights(Finalize(state),
                      heights \cup {BlockHeight(Head(state.best))})
    ELSE heights

\* The SyncPosition the next iteration of the catch-up loop works with
\* after a reset: the bindings of the enclosing `let` are not assigned again.
PositionAfterReset(height, hash, state, db) == <<height, hash>>

\* Variant: the position moves on to the fetched block.
PositionAdvanced(height, hash, block) == <<height + 1, block>>

\* The SyncPosition the next iteration works with after a commit attempt:
\* nothing in the loop body assigns to it.
PositionAfterCommit(height, hash, block) == <<height, hash>>

\* Variant: the store is kept on a reorg signal.
ResetStoreKept(state) == state

\* `non_finalized_state = NonFinalizedState::new(..)` on a reorg signal
ResetStore(state) == NewNonFinalizedState

\* Variant: `break` in the place of `continue`.
AfterResetBreak(alive) == IF alive THEN "wait" ELSE "error"

\* `.send(..)?; continue`: the loop goes on to the next fetch; without a
\* receiver the send error ends sync_from_rpc
AfterReset(alive) == IF alive THEN "fetch" ELSE "error"

\* Variant: every block is committed with commit_block.
StartsNoChain(finalized_tip_hash, parent_hash) == FALSE

\* `if finalized_tip_hash == parent_hash`: commit_new_chain, else commit_block
StartsNewChain(finalized_tip_hash, parent_hash) ==
    finalized_tip_hash = parent_hash

\* The reset of the store and the publication of the empty snapshot.
ResetNonFinalizedState(response) ==
    LET reset == ResetStore(non_finalized_state)
        position == PositionAfterReset(current_tip_height, current_tip_hash,
                                       reset, db_tip)
    IN  /\ non_finalized_state' = reset
        /\ non_finalized_state_sender' =
               Send(non_finalized_state_sender, receivers, reset)
        /\ pc' = AfterReset(receivers)
        /\ current_tip_height' = position[1]
        /\ current_tip_hash' = position[2]
        /\ finalized_heights' = {}
        /\ last' = Step("getblock", FetchHeight(current_tip_height),
                        current_tip_hash, response, "none", FALSE, 0, 1)
        /\ UNCHANGED <<node_tip_hash, fetched_block>>

\* The getblock response arrives and is filtered.  A block that links to the
\* expected hash is held while the finalized tip hash is read on a blocking
\* thread; anything else resets the store.
CatchUp(response) ==
    /\ pc = "fetching"
    /\ LET filtered == FilterBlock(response, current_tip_hash)
       IN  IF filtered = None
           THEN ResetNonFinalizedState(response)
           ELSE IF ~LinksTo(PreviousBlockHash(filtered[1]), current_tip_hash)
           THEN ResetNonFinalizedState(response)
           ELSE /\ pc' = "reading_hash"
                /\ fetched_block' = filtered[1]
                /\ last' = Step("block", FetchHeight(current_tip_height),
                                current_tip_hash, response, "none", FALSE, 0, 0)
                /\ UNCHANGED <<non_finalized_state, non_finalized_state_sender,
                               current_tip_height, current_tip_hash,
                               node_tip_hash, finalized_heights>>
    /\ UNCHANGED <<receivers, db_tip, chain_tip, syncer_pc, tip_block, trusted,
                   syncer_state, syncer_state_sender, initial_tip, sent_for,
                   node_block_hash, syncer_node_block_hash,
                   finalized_tip_read, finalized_tip_hash_read, syncer_tip_read>>

\* The closure `move || finalized_state.finalized_tip_hash()` runs on the
\* blocking thread and reads the finalized tip hash of that moment; joined
\* is FALSE when it panics.
BlockingFinalizedTipHash(joined) ==
    /\ pc = "reading_hash"
    /\ pc' = "hash_read"
    /\ finalized_tip_hash_read' =
           SpawnBlocking(joined, FinalizedTipHash(db_tip), NoHash)
    /\ last' = Quiet("finalized_state.finalized_tip_hash")
    /\ UNCHANGED <<non_finalized_state, current_tip_height, current_tip_hash,
                   node_tip_hash, non_finalized_state_sender, receivers, db_tip,
                   chain_tip, syncer_pc, tip_block, trusted, syncer_state,
                   syncer_state_sender, initial_tip, finalized_heights,
                   sent_for, node_block_hash, fetched_block,
                   syncer_node_block_hash, finalized_tip_read,
                   syncer_tip_read>>

\* `spawn_blocking(..).await?` resumes the task with what the blocking
\* thread read: a JoinError is returned; else the block is routed by the
\* hash read, committed against the storage of this moment, the store
\* drained and published; valid: the outcome of the block checks of the
\* commit.
CommitFetched(valid) ==
    /\ pc = "hash_read"
    /\ fetched_block' = NoHash
    /\ finalized_tip_hash_read' = SpawnBlocking(FALSE, NoHash, NoHash)
    /\ LET block == fetched_block
           parent_hash == PreviousBlockHash(block)
           finalized_tip_hash == finalized_tip_hash_read.value
           new_chain == StartsNewChain(finalized_tip_hash, parent_hash)
           commit == IF new_chain THEN "commit_new_chain" ELSE "commit_block"
           commit_result ==
               IF new_chain
               THEN CommitNewChain(non_finalized_state, block, db_tip, valid)
               ELSE CommitBlock(non_finalized_state, block, valid)
           drained == Drain(commit_result.state)
           position == PositionAfterCommit(current_tip_height,
                                           current_tip_hash, block)
       IN  IF ~finalized_tip_hash_read.joined
           THEN /\ pc' = "error"
                /\ last' = Step("finalized_tip_hash",
                                FetchHeight(current_tip_height),
                                current_tip_hash, Some(block), "none", FALSE,
                                0, 0)
                /\ UNCHANGED <<non_finalized_state, non_finalized_state_sender,
                               current_tip_height, current_tip_hash,
                               node_tip_hash, finalized_heights>>
           ELSE IF ~commit_result.ok
           THEN \* the failed commit is logged and the loop continues
                /\ last' = Step("getblock", FetchHeight(current_tip_height),
                                current_tip_hash, Some(block), commit, FALSE,
                                0, 0)
                /\ pc' = "fetch"
                /\ non_finalized_state' = commit_result.state
                /\ current_tip_height' = position[1]
                /\ current_tip_hash' = position[2]
                /\ UNCHANGED <<node_tip_hash, non_finalized_state_sender,
                               finalized_heights>>
           ELSE /\ non_finalized_state' = drained
                /\ finalized_heights' =
                       DrainHeights(commit_result.state, finalized_heights)
                /\ non_finalized_state_sender' =
                       Send(non_finalized_state_sender, receivers, drained)
                /\ last' = Step("getblock", FetchHeight(current_tip_height),
                                current_tip_hash, Some(block), commit, TRUE,
                                DrainCalls(commit_result.state), 1)
                /\ IF block = node_tip_hash
                   THEN \* caught up: back to wait_for_new_blocks
                        /\ pc' = "wait"
                        /\ current_tip_height' = 0
                        /\ current_tip_hash' = NoHash
                        /\ node_tip_hash' = NoHash
                   ELSE /\ pc' = "fetch"
                        /\ current_tip_height' = position[1]
                        /\ current_tip_hash' = position[2]
                        /\ UNCHANGED node_tip_hash
    /\ UNCHANGED <<receivers, db_tip, chain_tip, syncer_pc, tip_block, trusted,
                   syncer_state, syncer_state_sender, initial_tip, sent_for,
                   node_block_hash, syncer_node_block_hash,
                   finalized_tip_read, syncer_tip_read>>

----------------------------------------------------------------------------
(* The surroundings of the loop.                                           *)

\* The node that owns the finalized database finalizes its next block.
DbGrow ==
    /\ db_tip < MaxFinalized
    /\ trusted = NoHash \/ IsAncestor(db_tip + 1, trusted)
    /\ db_tip' = db_tip + 1
    /\ last' = Quiet("db")
    /\ UNCHANGED <<pc, non_finalized_state, current_tip_height, current_tip_hash,
                   node_tip_hash, non_finalized_state_sender, receivers,
                   chain_tip, syncer_pc, tip_block, trusted, syncer_state,
                   syncer_state_sender, initial_tip,
                   finalized_heights, sent_for,
                   node_block_hash, fetched_block, syncer_node_block_hash,
                   finalized_tip_read, finalized_tip_hash_read, syncer_tip_read>>

\* The last receiver of the snapshot channel is dropped.
DropReceivers ==
    /\ receivers
    /\ receivers' = FALSE
    /\ last' = Quiet("drop")
    /\ UNCHANGED <<pc, non_finalized_state, current_tip_height, current_tip_hash,
                   node_tip_hash, non_finalized_state_sender, db_tip,
                   chain_tip, syncer_pc, tip_block, trusted, syncer_state,
                   syncer_state_sender, initial_tip,
                   finalized_heights, sent_for,
                   node_block_hash, fetched_block, syncer_node_block_hash,
                   finalized_tip_read, finalized_tip_hash_read, syncer_tip_read>>

SyncFromRpc ==
    \/ CallGetBestBlockHash
    \/ \E response \in BestBlockHashResponses : WaitForNewBlocks(response)
    \/ \E joined \in BOOLEAN : BlockingTip(joined)
    \/ ReadTip
    \/ CallGetBlock
    \/ \E response \in GetBlockResponses(FetchHeight(current_tip_height)) :
           CatchUp(response)
    \/ \E joined \in BOOLEAN : BlockingFinalizedTipHash(joined)
    \/ \E valid \in BOOLEAN : CommitFetched(valid)

Next ==
    \/ SyncFromRpc
    \/ DbGrow
    \/ DropReceivers

Spec == Init /\ [][Next]_vars

----------------------------------------------------------------------------
(* TrustedChainSync.                                                       *)

\* TrustedChainSync::wait_for_new_blocks under sync() sends the
\* getbestblockhash request.
SyncerCallGetBestBlockHash ==
    /\ syncer_pc = "idle"
    /\ syncer_pc' = "polling"
    /\ last' = Quiet("syncer call getbestblockhash")
    /\ UNCHANGED <<pc, non_finalized_state, current_tip_height, current_tip_hash,
                   node_tip_hash, non_finalized_state_sender, receivers, db_tip,
                   chain_tip, tip_block, trusted, syncer_state,
                   syncer_state_sender, initial_tip, finalized_heights,
                   sent_for, node_block_hash, fetched_block,
                   syncer_node_block_hash,
                   finalized_tip_read, finalized_tip_hash_read, syncer_tip_read>>

\* The response arrives: a missing response leads to a sleep; with a best
\* tip in the store the hashes are compared (equal: sleep, unequal: return,
\* recorded in ok, which sync() answers with the next call); with an empty
\* store the tip of the database is read on a blocking thread.
SyncerWaitForNewBlocks(response) ==
    /\ syncer_pc = "polling"
    /\ IF response # None /\ BestTip(syncer_state) = None
       THEN /\ syncer_pc' = "reading_tip"
            /\ syncer_node_block_hash' = response[1]
            /\ last' = Step("syncer getbestblockhash", 0, NoHash, response,
                            "none", FALSE, 0, 0)
       ELSE LET tip == LocalTip(syncer_state, db_tip)
                returned == /\ response # None
                            /\ tip # None
                            /\ TipsDiffer(response[1], tip[2])
            IN  /\ syncer_pc' = "idle"
                /\ UNCHANGED syncer_node_block_hash
                /\ last' = Step("syncer getbestblockhash", 0, NoHash, response,
                                "none", returned, 0, 0)
    /\ UNCHANGED <<pc, non_finalized_state, current_tip_height, current_tip_hash,
                   node_tip_hash, non_finalized_state_sender, receivers, db_tip,
                   chain_tip, tip_block, trusted, syncer_state,
                   syncer_state_sender, initial_tip, finalized_heights,
                   sent_for, node_block_hash, fetched_block,
                   finalized_tip_read, finalized_tip_hash_read, syncer_tip_read>>

\* The closure `move || db.tip()` runs on the blocking thread and reads the
\* tip of that moment; joined is FALSE when it panics.
SyncerBlockingTip(joined) ==
    /\ syncer_pc = "reading_tip"
    /\ syncer_pc' = "tip_read"
    /\ syncer_tip_read' = SpawnBlocking(joined, DbTip(db_tip), None)
    /\ last' = Quiet("syncer db.tip")
    /\ UNCHANGED <<pc, non_finalized_state, current_tip_height, current_tip_hash,
                   node_tip_hash, non_finalized_state_sender, receivers, db_tip,
                   chain_tip, tip_block, trusted, syncer_state,
                   syncer_state_sender, initial_tip, finalized_heights,
                   sent_for, node_block_hash, fetched_block,
                   syncer_node_block_hash, finalized_tip_read,
                   finalized_tip_hash_read>>

\* `spawn_blocking(..).await?` resumes the task with what the blocking
\* thread read: on a JoinError wait_for_new_blocks returns it and sync()
\* drops it; else the hashes are compared as above.
SyncerReadTip ==
    /\ syncer_pc = "tip_read"
    /\ syncer_pc' = "idle"
    /\ syncer_node_block_hash' = NoHash
    /\ syncer_tip_read' = SpawnBlocking(FALSE, None, None)
    /\ LET joined == syncer_tip_read.joined
           tip == syncer_tip_read.value
           returned == /\ joined
                       /\ tip # None
                       /\ TipsDiffer(syncer_node_block_hash, tip[2])
       IN  last' = Step(IF joined THEN "syncer tip" ELSE "syncer join error",
                        0, NoHash, Some(syncer_node_block_hash), "none",
                        returned, 0, 0)
    /\ UNCHANGED <<pc, non_finalized_state, current_tip_height, current_tip_hash,
                   node_tip_hash, non_finalized_state_sender, receivers, db_tip,
                   chain_tip, tip_block, trusted, syncer_state,
                   syncer_state_sender, initial_tip, finalized_heights,
                   sent_for, node_block_hash, fetched_block,
                   finalized_tip_read, finalized_tip_hash_read>>

\* Variant: the tip is set before the snapshot is sent.
TipBeforeSnapshot == <<"set_tip", "send">>

\* The order of the two publications of update_channels: the send on the
\* snapshot channel, then chain_tip_sender.set_best_non_finalized_tip
UpdateChannelsOrder == <<"send", "set_tip">>

\* The position of update_channels after one of its publications
AfterPublication(step) ==
    IF step = UpdateChannelsOrder[1] THEN UpdateChannelsOrder[2] ELSE "idle"

\* update_channels is called: `let tip_block = ChainTipBlock::from(best_tip)`
UpdateChannels(best_tip) ==
    /\ syncer_pc = "idle"
    /\ syncer_pc' = UpdateChannelsOrder[1]
    /\ tip_block' = best_tip
    /\ last' = Quiet("update_channels")
    /\ UNCHANGED <<pc, non_finalized_state, current_tip_height, current_tip_hash,
                   node_tip_hash, non_finalized_state_sender, receivers, db_tip,
                   chain_tip, trusted, syncer_state, syncer_state_sender,
                   initial_tip, finalized_heights, sent_for,
                   node_block_hash, fetched_block, syncer_node_block_hash,
                   finalized_tip_read, finalized_tip_hash_read, syncer_tip_read>>

\* update_channels: the store is sent on the snapshot channel.
UpdateChannelsSend ==
    /\ syncer_pc = "send"
    /\ syncer_pc' = AfterPublication("send")
    /\ tip_block' = IF AfterPublication("send") = "idle" THEN NoHash
                    ELSE tip_block
    \* `let _ = ..send(..)`: a send error is ignored
    /\ syncer_state_sender' = Send(syncer_state_sender, receivers, syncer_state)
    /\ sent_for' = Send(sent_for, receivers, tip_block)
    /\ last' = Quiet("send")
    /\ UNCHANGED <<pc, non_finalized_state, current_tip_height, current_tip_hash,
                   node_tip_hash, non_finalized_state_sender, receivers, db_tip,
                   chain_tip, trusted, syncer_state, initial_tip,
                   finalized_heights,
                   node_block_hash, fetched_block, syncer_node_block_hash,
                   finalized_tip_read, finalized_tip_hash_read, syncer_tip_read>>

\* update_channels: chain_tip_sender.set_best_non_finalized_tip.
UpdateChannelsSetTip ==
    /\ syncer_pc = "set_tip"
    /\ syncer_pc' = AfterPublication("set_tip")
    /\ chain_tip' = [chain_tip EXCEPT ![SyncerChainTipSender] = tip_block]
    /\ tip_block' = IF AfterPublication("set_tip") = "idle" THEN NoHash
                    ELSE tip_block
    /\ last' = Quiet("set_best_non_finalized_tip")
    /\ UNCHANGED <<pc, non_finalized_state, current_tip_height, current_tip_hash,
                   node_tip_hash, non_finalized_state_sender, receivers, db_tip,
                   trusted, syncer_state, syncer_state_sender, initial_tip,
                   finalized_heights, sent_for,
                   node_block_hash, fetched_block, syncer_node_block_hash,
                   finalized_tip_read, finalized_tip_hash_read, syncer_tip_read>>

NextSyncer ==
    \/ SyncerCallGetBestBlockHash
    \/ \E response \in BestBlockHashResponses : SyncerWaitForNewBlocks(response)
    \/ \E joined \in BOOLEAN : SyncerBlockingTip(joined)
    \/ SyncerReadTip
    \/ \E best_tip \in Blocks : UpdateChannels(best_tip)
    \/ UpdateChannelsSend
    \/ UpdateChannelsSetTip
    \/ DbGrow
    \/ DropReceivers

SpecSyncer == Init /\ [][NextSyncer]_vars

----------------------------------------------------------------------------
(* A trusted node whose best chain stays fixed.                            *)

\* The node settles on the chain ending in block tip, which extends the
\* local tip by at least one block, while the loop is polling.
NodeSettles(tip) ==
    /\ trusted = NoHash
    /\ pc = "wait"
    /\ LET local == LocalTip(non_finalized_state, db_tip)
       IN  /\ local # None
           /\ local[2] # tip
           /\ IsAncestor(local[2], tip)
    /\ IsAncestor(db_tip, tip)
    /\ trusted' = tip
    /\ last' = Quiet("settle")
    /\ UNCHANGED <<pc, non_finalized_state, current_tip_height, current_tip_hash,
                   node_tip_hash, non_finalized_state_sender, receivers, db_tip,
                   chain_tip, syncer_pc, tip_block, syncer_state,
                   syncer_state_sender, initial_tip,
                   finalized_heights, sent_for,
                   node_block_hash, fetched_block, syncer_node_block_hash,
                   finalized_tip_read, finalized_tip_hash_read, syncer_tip_read>>

NextLive ==
    \/ Next
    \/ \E tip \in Blocks : NodeSettles(tip)

\* The task that runs sync_from_rpc is scheduled again after every await.
SpecLive == Init /\ [][NextLive]_vars /\ WF_vars(SyncFromRpc)

----------------------------------------------------------------------------
(* Properties.                                                             *)

\* The last step was a getblock response that is a reorg signal: no block,
\* or a block whose parent is not the hash it was checked against.
ReorgSignal ==
    /\ last.op = "getblock"
    /\ \/ last.result = None
       \/ /\ last.result # None
          /\ PreviousBlockHash(last.result[1]) # last.tip_hash

\* The last step was a getblock response whose block went to a commit call.
CommitAttempt == last.op = "getblock" /\ last.commit # "none"

\* C1: the store at every boundary of the loop, and every snapshot held by
\* the snapshot channel, has a best chain of at most MAX_BLOCK_REORG_HEIGHT
\* blocks; after a successful commit the channel holds the drained store.
DepthInvariant ==
    /\ BestChainLen(non_finalized_state) <= MAX_BLOCK_REORG_HEIGHT
    /\ BestChainLen(non_finalized_state_sender) <= MAX_BLOCK_REORG_HEIGHT
    /\ (CommitAttempt /\ last.ok /\ receivers)
           => non_finalized_state_sender = non_finalized_state

\* C1 witness: a commit made the best chain outgrow the limit, finalize()
\* ran, and the drained store was published.
DepthWitness ==
    /\ CommitAttempt /\ last.ok /\ last.finalized > 0
    /\ BestChainLen(non_finalized_state_sender) = MAX_BLOCK_REORG_HEIGHT
    /\ non_finalized_state_sender = non_finalized_state

\* C2: once the node's best chain is fixed and extends the local tip, and
\* the snapshot channel keeps a receiver and no blocking read of storage
\* panics (so that sync_from_rpc does not return), the loop eventually is
\* back in the wait-for-divergence phase with the local tip equal to the
\* node's tip.
CatchUpLiveness ==
    (<>(trusted # NoHash) /\ []receivers /\ [](pc # "error"))
        => <>(/\ trusted # NoHash
              /\ pc \in {"wait", "polling", "reading_tip", "tip_read"}
              /\ LocalTip(non_finalized_state, db_tip) # None
              /\ LocalTip(non_finalized_state, db_tip)[2] = trusted)

\* C3: after a reorg signal the store is empty, and the loop is either at
\* its next fetch with the empty snapshot on the channel, or has ended
\* because the channel has no receiver.
ResetPublished ==
    ReorgSignal =>
        /\ non_finalized_state = NewNonFinalizedState
        /\ BestTip(non_finalized_state) = None
        /\ pc \in {"fetch", "error"}
        /\ receivers => /\ pc = "fetch"
                        /\ non_finalized_state_sender = NewNonFinalizedState
        /\ pc = "fetch" => non_finalized_state_sender = NewNonFinalizedState

\* C3 witness: a block that does not link to a tip taken from the store
\* arrived, and the empty snapshot is on the channel before the next fetch.
ResetWitness ==
    /\ ReorgSignal /\ last.result # None
    /\ last.tip_hash > MaxFinalized
    /\ pc = "fetch"
    /\ non_finalized_state_sender = NewNonFinalizedState

\* C4: after a reset the position of the next iteration is the finalized tip
\* (stated for the runs in which finalized storage still holds the tip found
\* at construction, so that storage itself cannot move the position).
RestartFromFinalizedTip ==
    (ReorgSignal /\ pc = "fetch" /\ db_tip = initial_tip)
        => <<current_tip_height, current_tip_hash>> = DbTip(db_tip)

\* C5, as stated: an absent getblock response leaves the store's best tip and
\* best chain length as they were.
AbsentFetchKeepsStore ==
    [][(pc = "fetching" /\ last'.op = "getblock" /\ last'.result = None)
          => /\ BestTip(non_finalized_state') = BestTip(non_finalized_state)
             /\ BestChainLen(non_finalized_state')
                    = BestChainLen(non_finalized_state)]_vars

\* C5, amended: an absent getblock response resets the store to empty, and
\* the loop goes on to fetch again unless the channel has no receiver, in
\* which case it ends with the send error.
AbsentFetchResets ==
    (last.op = "getblock" /\ last.result = None) =>
        /\ non_finalized_state = NewNonFinalizedState
        /\ BestTip(non_finalized_state) = None
        /\ BestChainLen(non_finalized_state) = 0
        /\ pc = IF receivers THEN "fetch" ELSE "error"

\* C5 witness: the fetch above a tip taken from the store came back absent
\* and the loop is about to fetch again.
AbsentFetchWitness ==
    /\ last.op = "getblock" /\ last.result = None
    /\ last.tip_hash > MaxFinalized
    /\ pc = "fetch"

\* C6: a failed getbestblockhash response does not end the loop.
PollFailureAbsorbed ==
    (last.op = "getbestblockhash" /\ last.result = None) => pc # "error"

\* C7: a getbestblockhash response equal to the local tip hash it is
\* compared with (the store's best tip at the response, else the finalized
\* tip that the blocking read returned) leaves the loop in the
\* wait-for-divergence phase; store and channels are untouched.
Quiescence ==
    [][(\/ /\ pc = "polling"
           /\ last'.op = "getbestblockhash"
           /\ last'.result # None
           /\ BestTip(non_finalized_state) # None
           /\ last'.result[1] = BestTip(non_finalized_state)[2]
        \/ /\ pc = "tip_read"
           /\ last'.op = "tip" /\ last'.ok
           /\ finalized_tip_read.value # None
           /\ node_block_hash = finalized_tip_read.value[2])
          => /\ pc' = "wait"
             /\ non_finalized_state' = non_finalized_state
             /\ non_finalized_state_sender' = non_finalized_state_sender
             /\ chain_tip' = chain_tip
             /\ syncer_state_sender' = syncer_state_sender]_vars

\* C7 witness: the node reported the best tip of a store that holds blocks.
QuiescenceWitness ==
    /\ last.op = "getbestblockhash" /\ last.result # None
    /\ BestTip(non_finalized_state) # None
    /\ last.result[1] = BestTip(non_finalized_state)[2]
    /\ pc = "wait"

\* C8, as stated: a tip observed through LatestChainTip is the best tip of
\* the syncer's store.
ObservedTipsWereCommitted ==
    LatestChainTip # NoHash
        => /\ BestTip(syncer_state) # None
           /\ BestTip(syncer_state)[2] = LatestChainTip

\* C8, amended: a value observed through LatestChainTip is the value
\* installed at construction from the finalized tip block, or the best tip
\* of the syncer's store.
ObservedTipsFromConstruction ==
    \/ LatestChainTip = initial_tip
    \/ /\ BestTip(syncer_state) # None
       /\ BestTip(syncer_state)[2] = LatestChainTip

\* C8 witness: update_channels has set another tip on the syncer's sender
\* and the reader still observes the finalized tip installed at construction.
ObservedTipsWitness ==
    /\ last.op = "set_best_non_finalized_tip"
    /\ chain_tip[SyncerChainTipSender] # initial_tip
    /\ initial_tip # NoHash
    /\ LatestChainTip = initial_tip

\* C9: after a successful commit LatestChainTip is the store's best tip.
TipPublishedAfterCommit ==
    (CommitAttempt /\ last.ok)
        => LatestChainTip = BestTip(non_finalized_state)[2]

\* C10: a rejected commit leaves the store and the channels as they were,
\* calls no finalize(), sends nothing, and the loop fetches the same height
\* against the same hash again.
CommitRejectionLocal ==
    [][(pc = "hash_read" /\ last'.op = "getblock"
            /\ last'.commit # "none" /\ ~last'.ok)
          => /\ BestTip(non_finalized_state') = BestTip(non_finalized_state)
             /\ BestChainLen(non_finalized_state')
                    = BestChainLen(non_finalized_state)
             /\ non_finalized_state' = non_finalized_state
             /\ last'.finalized = 0
             /\ last'.sent = 0
             /\ non_finalized_state_sender' = non_finalized_state_sender
             /\ chain_tip' = chain_tip
             /\ pc' = "fetch"
             /\ FetchHeight(current_tip_height') = last'.height
             /\ current_tip_hash' = current_tip_hash]_vars

\* C10 witness: commit_block rejected a block on a store that holds blocks.
CommitRejectionWitness ==
    /\ CommitAttempt /\ ~last.ok
    /\ last.commit = "commit_block"
    /\ non_finalized_state # NewNonFinalizedState
    /\ pc = "fetch"

\* C11: every getblock request of the catch-up loop asks for the height
\* above the local tip (the store's best tip, else the finalized tip), never
\* for the local tip's own height.
FetchAtNextHeight ==
    last.op = "call getblock" =>
        /\ LocalTip(non_finalized_state, db_tip) # None
        /\ last.height = LocalTip(non_finalized_state, db_tip)[1] + 1
        /\ last.height # LocalTip(non_finalized_state, db_tip)[1]

\* C12: a getblock response handled while the snapshot channel has no
\* receiver does not end the loop.
DroppedReadersKeepRunning ==
    (last.op = "getblock" /\ ~receivers) => pc # "error"

\* C13: a tip set by update_channels is the value a reader observes through
\* the LatestChainTip that spawn returned.
ReaderWiring ==
    last.op = "set_best_non_finalized_tip"
        => LatestChainTip = chain_tip[SyncerChainTipSender]

\* C14: every block held by the store, and every block a successful commit
\* has just introduced, lies above every height at which finalize() has
\* dropped a block since the store was last reset.
MonotonicFinalization ==
    \A height \in finalized_heights :
        /\ \A c \in non_finalized_state.chains :
               \A i \in 1..Len(c) : BlockHeight(c[i]) > height
        /\ (CommitAttempt /\ last.ok) => BlockHeight(last.result[1]) > height

\* C14 witness: a block was committed after finalize() had dropped a block:
\* its commit made finalize() drop a second one.
MonotonicFinalizationWitness ==
    /\ CommitAttempt /\ last.ok
    /\ Cardinality(finalized_heights) >= 2

\* C15: after a successful commit that does not end the catch-up phase, the
\* next getblock request asks for the height above the previous request, and
\* the block it fetches is checked against the block just committed.
CursorAdvance ==
    [][(CommitAttempt /\ last.ok /\ pc = "fetch" /\ last'.op = "call getblock")
          => /\ last'.height = last.height + 1
             /\ last'.tip_hash = last.result[1]]_vars

\* C16: a block handed to commit_new_chain or commit_block has as parent the
\* local tip of that moment: the store's best tip, else the finalized tip
\* (stated for the runs in which finalized storage still holds the tip found
\* at construction, so that storage itself cannot move the local tip).
LinkageBeforeCommit ==
    [][(/\ pc = "hash_read" /\ db_tip = initial_tip
        /\ last'.op = "getblock" /\ last'.commit # "none")
          => /\ LocalTip(non_finalized_state, db_tip) # None
             /\ PreviousBlockHash(last'.result[1])
                    = LocalTip(non_finalized_state, db_tip)[2]]_vars

\* C17: the catch-up phase is left for the wait-for-divergence phase only by
\* a successful commit of the block whose hash is the node tip recorded when
\* the phase began, and the store's best tip is then that block (stated for
\* the runs in which finalized storage still holds the tip found at
\* construction).
CatchUpExit ==
    [][(/\ pc \in {"fetch", "fetching", "reading_hash", "hash_read"}
        /\ pc' = "wait"
        /\ db_tip = initial_tip)
          => /\ last'.op = "getblock" /\ last'.commit # "none" /\ last'.ok
             /\ last'.result[1] = node_tip_hash
             /\ BestTip(non_finalized_state') # None
             /\ BestTip(non_finalized_state')[2] = node_tip_hash]_vars

\* C18: the finalized tip hash is read from finalized storage on the
\* blocking thread, and a block that passed the linkage check goes to
\* commit_new_chain exactly when its parent is the hash that read returned,
\* and to commit_block otherwise; on an empty store a block whose parent is
\* that hash goes to commit_new_chain and, once accepted, is the best tip.
CommitRouting ==
    [][/\ (pc = "reading_hash" /\ pc' = "hash_read"
               /\ finalized_tip_hash_read'.joined)
          => finalized_tip_hash_read'.value = FinalizedTipHash(db_tip)
       /\ (pc = "hash_read" /\ last'.op = "getblock"
               /\ last'.commit # "none")
          => LET block == last'.result[1]
                 on_finalized_tip ==
                     PreviousBlockHash(block) = finalized_tip_hash_read.value
             IN  /\ finalized_tip_hash_read.joined
                 /\ last'.commit \in {"commit_new_chain", "commit_block"}
                 /\ last'.commit = "commit_new_chain" <=> on_finalized_tip
                 /\ (non_finalized_state = NewNonFinalizedState
                        /\ on_finalized_tip)
                       => /\ last'.commit = "commit_new_chain"
                          /\ last'.ok
                               => BestTip(non_finalized_state')
                                      = <<BlockHeight(block), block>>]_vars

\* C18 witness: commit_new_chain put the first block above the finalized tip
\* into the empty store, and it is the best tip.
CommitRoutingWitness ==
    /\ CommitAttempt /\ last.ok /\ last.commit = "commit_new_chain"
    /\ PreviousBlockHash(last.result[1]) = FinalizedTipHash(db_tip)
    /\ non_finalized_state.chains = {<<last.result[1]>>}
    /\ BestTip(non_finalized_state)
           = <<BlockHeight(last.result[1]), last.result[1]>>

\* C19: finalize() runs only after a successful commit that left the best
\* chain longer than the reorg limit, once per block above the limit, and
\* each call shortens the best chain by one block: a commit that makes the
\* length limit + 1 is followed by exactly one call and leaves the length at
\* the limit, a commit that leaves it within the limit by none.
NoOverFinalization ==
    [][(pc \in {"fetching", "reading_hash", "hash_read"}
            /\ last'.op \in {"getblock", "block", "finalized_tip_hash",
                              "finalized_state.finalized_tip_hash"})
          => IF last'.commit # "none" /\ last'.ok
             THEN LET block == last'.result[1]
                      committed ==
                          IF last'.commit = "commit_new_chain"
                          THEN CommitNewChain(non_finalized_state, block,
                                              db_tip, TRUE).state
                          ELSE CommitBlock(non_finalized_state, block,
                                           TRUE).state
                      len == BestChainLen(committed)
                  IN  /\ last'.finalized > 0 => len > MAX_BLOCK_REORG_HEIGHT
                      /\ BestChainLen(non_finalized_state')
                             = len - last'.finalized
                      /\ len = MAX_BLOCK_REORG_HEIGHT + 1
                            => /\ last'.finalized = 1
                               /\ BestChainLen(non_finalized_state')
                                      = MAX_BLOCK_REORG_HEIGHT
                      /\ len <= MAX_BLOCK_REORG_HEIGHT
                            => /\ last'.finalized = 0
                               /\ non_finalized_state' = committed
             ELSE last'.finalized = 0]_vars

\* C19 witness: a commit made the best chain one block longer than the
\* limit and finalize() ran once.
NoOverFinalizationWitness ==
    /\ CommitAttempt /\ last.ok /\ last.finalized = 1
    /\ BestChainLen(non_finalized_state) = MAX_BLOCK_REORG_HEIGHT

\* C20: the position wait_for_new_blocks returns holds the store's best tip
\* when the store has one, the finalized tip only when the store is empty
\* (the tip that the blocking read found in finalized storage), and the
\* node's tip hash, which differs from the local tip hash; while neither the
\* store nor finalized storage has a tip the loop stays in the wait phase and
\* sends no getblock request.
LocalTipSelection ==
    [][/\ (pc = "polling" /\ pc' = "fetch")
          => /\ last'.result # None
             /\ node_tip_hash' = last'.result[1]
             /\ node_tip_hash' # current_tip_hash'
             /\ BestTip(non_finalized_state) # None
             /\ <<current_tip_height', current_tip_hash'>>
                    = BestTip(non_finalized_state)
       /\ (pc = "reading_tip" /\ pc' = "tip_read" /\ finalized_tip_read'.joined)
          => /\ BestTip(non_finalized_state) = None
             /\ finalized_tip_read'.value = DbTip(db_tip)
       /\ (pc = "tip_read" /\ pc' = "fetch")
          => /\ node_tip_hash' = node_block_hash
             /\ node_tip_hash' # current_tip_hash'
             /\ BestTip(non_finalized_state) = None
             /\ finalized_tip_read.joined
             /\ finalized_tip_read.value # None
             /\ <<current_tip_height', current_tip_hash'>>
                    = finalized_tip_read.value
       /\ (BestTip(non_finalized_state') = None /\ DbTip(db_tip') = None)
          => /\ pc' \notin {"fetch", "fetching", "reading_hash", "hash_read"}
             /\ last'.op \notin {"call getblock", "getblock", "block"}]_vars

\* C20 witness: the phase ended on a store that holds blocks above a
\* finalized tip, with the store's best tip in the position.
LocalTipSelectionWitness ==
    /\ last.op = "getbestblockhash" /\ pc = "fetch"
    /\ BestTip(non_finalized_state) # None
    /\ DbTip(db_tip) # None
    /\ <<current_tip_height, current_tip_hash>> = BestTip(non_finalized_state)
    /\ <<current_tip_height, current_tip_hash>> # DbTip(db_tip)

\* C21: while the snapshot channel has a receiver, a tip that update_channels
\* has set on the syncer's chain tip sender is never ahead of the snapshot
\* channel: the channel holds the snapshot sent by the call that set the
\* tip, or the one sent by a later call that has not set its tip yet; before
\* the first call both channels hold what they were built with.
PublicationOrder ==
    receivers =>
        \/ sent_for = chain_tip[SyncerChainTipSender]
        \/ syncer_pc = "set_tip" /\ sent_for = tip_block
        \/ sent_for = NoHash /\ chain_tip[SyncerChainTipSender] = initial_tip

\* C21 witness: update_channels has just set a tip other than the one
\* installed at construction, and the snapshot channel, which still has a
\* receiver, holds the snapshot sent in that call.
PublicationOrderWitness ==
    /\ receivers
    /\ last.op = "set_best_non_finalized_tip"
    /\ syncer_pc = "idle"
    /\ chain_tip[SyncerChainTipSender] # initial_tip
    /\ sent_for = chain_tip[SyncerChainTipSender]
    /\ syncer_state_sender = syncer_state

====
